---- MODULE Spec2Model ----
\* A model of the mortgage calculator's browser scripts:
\*   - the payment chart (buildChart, resize, drawChart, handleHover),
\*   - the thousands-separator formatting of input fields (formatWithSpaces),
\*   - the installment toggle that disables the annual-rate field.
\* JavaScript numbers are modelled as exact fractions n/d with d > 0, plus the
\* three non-finite values NaN, +Infinity and -Infinity (d = 0).  Signed zero
\* and binary rounding are not modelled.
EXTENDS Integers, Sequences, FiniteSets, TLC

VARIABLES
    \* ---- chart page ----
    anchors,      \* ids of the DOM anchors present in the document
    schedule,     \* the array parsed from #schedule-data
    phase,        \* "loading" before DOMContentLoaded, "ready" after buildChart ran
    mounted,      \* TRUE once buildChart registered its listeners
    clientSize,   \* the canvas's current CSS size [w, h] (owned by the browser)
    state,        \* buildChart's cached state [width, height]
    chart,        \* what the last drawChart computed
    tooltip,      \* style and text of #chart-tooltip and its three children
    hover,        \* the inputs and intermediate values of the last mousemove
    threw,        \* TRUE once a handler raised an uncaught exception
    \* ---- formatted input field ----
    fieldRaw,     \* the field's value when the last input event fired
    fieldValue,   \* the field's current value
    fieldPhase,   \* "edited": an input event is pending; "formatted": it was handled
    \* ---- installment toggle ----
    toggleActive, \* #installment-toggle has class is-active
    fieldHidden,  \* #rate-field has class is-hidden
    rate,         \* the annual_rate input: [value, disabled, required]
    clicks,       \* number of clicks handled so far
    lastClick     \* "none", or what the last handled event was: "on", "off", "type"

chartVars == <<anchors, schedule, phase, mounted, clientSize, state, chart,
               tooltip, hover, threw>>
formatVars == <<fieldRaw, fieldValue, fieldPhase>>
toggleVars == <<toggleActive, fieldHidden, rate, clicks, lastClick>>
vars == <<chartVars, formatVars, toggleVars>>

------------------------------------------------------------------------------
\* Bounds of the model.

\* longest schedule with arbitrary rows
MaxRows == 2
\* largest principal or interest amount of a row
MaxAmount == 2
\* longest schedule with uniform rows
MaxLongLen == 50
\* longest text typed or pasted into a formatted field
MaxStrLen == 7
\* longest of the short schedules the pointer is moved over
MaxHoverLen == 3
\* clicks on the toggle that are followed
MaxClicks == 6

------------------------------------------------------------------------------
\* JavaScript numbers.

Abs(a) == IF a < 0 THEN -a ELSE a
Sign(a) == IF a < 0 THEN -1 ELSE IF a > 0 THEN 1 ELSE 0
IntMax(a, b) == IF a >= b THEN a ELSE b

RECURSIVE Gcd(_, _)
Gcd(a, b) == IF b = 0 THEN a ELSE Gcd(b, a % b)

NaN == [n |-> 0, d |-> 0]
PosInf == [n |-> 1, d |-> 0]
NegInf == [n |-> -1, d |-> 0]
Inf(s) == IF s < 0 THEN NegInf ELSE PosInf

\* the fraction n/d, d # 0, in lowest terms with a positive denominator
Frac(n, d) ==
    LET g == Gcd(Abs(n), Abs(d))
        s == IF d < 0 THEN -1 ELSE 1
    IN  [n |-> s * (n \div g), d |-> s * (d \div g)]
Num(n) == [n |-> n, d |-> 1]

IsNaN(a) == a.d = 0 /\ a.n = 0
IsInf(a) == a.d = 0 /\ a.n # 0
IsFinite(a) == a.d > 0
IsInteger(a) == a.d = 1

JsAdd(a, b) ==
    IF IsNaN(a) \/ IsNaN(b) THEN NaN
    ELSE IF IsInf(a) /\ IsInf(b) THEN (IF a.n = b.n THEN a ELSE NaN)
    ELSE IF IsInf(a) THEN a
    ELSE IF IsInf(b) THEN b
    ELSE Frac(a.n * b.d + b.n * a.d, a.d * b.d)

JsNeg(a) == [n |-> -a.n, d |-> a.d]
JsSub(a, b) == JsAdd(a, JsNeg(b))

JsMul(a, b) ==
    IF IsNaN(a) \/ IsNaN(b) THEN NaN
    ELSE IF IsInf(a) \/ IsInf(b)
         THEN (IF a.n = 0 \/ b.n = 0 THEN NaN ELSE Inf(Sign(a.n) * Sign(b.n)))
    ELSE Frac(a.n * b.n, a.d * b.d)

JsDiv(a, b) ==
    IF IsNaN(a) \/ IsNaN(b) THEN NaN
    ELSE IF IsInf(a) THEN (IF IsInf(b) THEN NaN
                           ELSE Inf(a.n * (IF b.n < 0 THEN -1 ELSE 1)))
    ELSE IF IsInf(b) THEN Num(0)
    ELSE IF b.n = 0 THEN (IF a.n = 0 THEN NaN ELSE Inf(Sign(a.n)))
    ELSE Frac(a.n * b.d, a.d * b.n)

\* a <= b and a < b; every comparison with NaN is false
JsLe(a, b) ==
    /\ ~IsNaN(a)
    /\ ~IsNaN(b)
    /\ IF IsInf(a) \/ IsInf(b)
       THEN \/ a = NegInf
            \/ b = PosInf
       ELSE a.n * b.d <= b.n * a.d
JsLt(a, b) == JsLe(a, b) /\ a # b

\* Math.min, Math.max: NaN when an argument is NaN
JsMin(a, b) == IF IsNaN(a) \/ IsNaN(b) THEN NaN ELSE IF JsLe(a, b) THEN a ELSE b
JsMax(a, b) == IF IsNaN(a) \/ IsNaN(b) THEN NaN ELSE IF JsLe(a, b) THEN b ELSE a

\* Math.round: floor(a + 1/2)
JsRound(a) == IF ~IsFinite(a) THEN a ELSE Num((2 * a.n + a.d) \div (2 * a.d))

\* array[index]: a row when index is an integer in 0..n-1, undefined otherwise
HasRow(n, index) == IsInteger(index) /\ index.n >= 0 /\ index.n < n

------------------------------------------------------------------------------
\* The payment chart.

\* state.padding
PadTop == 12
PadRight == 16
PadBottom == 46
PadLeft == 70
\* handleHover's margin and fallback tooltip size
Margin == 8
DefaultTooltipWidth == 180
DefaultTooltipHeight == 60
\* drawChart's target number of vertical gridlines
GridTarget == 24

AnchorIds == {"schedule-data", "payment-chart", "chart-tooltip",
              "tooltip-title", "tooltip-principal", "tooltip-interest"}

Amounts == 0 .. MaxAmount
Rows == [principal : Amounts, interest : Amounts]
UniformRow == [principal |-> 1, interest |-> 1]

RECURSIVE SeqsUpTo(_, _)
SeqsUpTo(S, k) ==
    IF k = 0 THEN {<<>>}
    ELSE LET shorter == SeqsUpTo(S, k - 1)
         IN  shorter \cup {Append(s, e) : s \in {t \in shorter : Len(t) = k - 1}, e \in S}

ShortSchedules == SeqsUpTo(Rows, MaxRows) \ {<<>>}
Uniform(n) == [i \in 1 .. n |-> UniformRow]
LongLens == {23, 24, 25} \cup ((MaxLongLen - 4) .. MaxLongLen) \cup {71, 95, 360}
LongSchedules == {Uniform(n) : n \in LongLens}
HoverSchedules == {Uniform(n) : n \in 1 .. MaxHoverLen}

\* CSS sizes the layout can give the canvas: collapsed, exactly the padding,
\* ordinary
CanvasSizes == {[w |-> 0, h |-> 0], [w |-> 86, h |-> 58], [w |-> 300, h |-> 200]}
\* pointer positions relative to the canvas's left edge
PointerXs == {-10, 70, 150, 284, 350}
\* offsetWidth/offsetHeight of the tooltip: not laid out, small, large
TooltipSizes == {[w |-> 0, h |-> 0], [w |-> 100, h |-> 40], [w |-> 400, h |-> 250]}

NoChart == [interestPoints |-> <<>>, totalPoints |-> <<>>, gridlines |-> <<>>]
NoTooltip == [opacity |-> "", left |-> NaN, top |-> NaN,
              title |-> -1, principal |-> -1, interest |-> -1]
NoHover == [seen |-> FALSE]

\* Math.max(...schedule.map(item => item.interest + item.principal))
MaxPayment(s) ==
    LET payments == {s[i].interest + s[i].principal : i \in 1 .. Len(s)}
    IN  CHOOSE m \in payments : \A p \in payments : p <= m

xForIndex(plotWidth, n, index) ==
    JsAdd(Num(PadLeft), JsDiv(JsMul(plotWidth, index), Num(IntMax(n - 1, 1))))
yForValue(plotHeight, value) == JsSub(JsAdd(Num(PadTop), plotHeight), value)

\* verticalStep without decimation
verticalStepEvery(n) == 1

verticalStep(n) == IntMax(1, n \div GridTarget)

\* for (let i = 0; i < schedule.length; i += verticalStep): the indices drawn
RECURSIVE GridlinesFrom(_, _, _)
GridlinesFrom(i, n, step) ==
    IF i < n THEN <<i>> \o GridlinesFrom(i + step, n, step) ELSE <<>>

interestHeight(item, maxPayment, plotHeight) ==
    JsMul(JsDiv(Num(item.interest), Num(maxPayment)), plotHeight)
totalHeight(item, maxPayment, plotHeight) ==
    JsMul(JsDiv(Num(item.interest + item.principal), Num(maxPayment)), plotHeight)

drawChart(s, st) ==
    LET n == Len(s)
        plotWidth == Num(st.width - PadLeft - PadRight)
        plotHeight == Num(st.height - PadTop - PadBottom)
        maxPayment == MaxPayment(s)
    IN  [interestPoints |->
            [i \in 1 .. n |->
                [x |-> xForIndex(plotWidth, n, Num(i - 1)),
                 y |-> yForValue(plotHeight, interestHeight(s[i], maxPayment, plotHeight))]],
         totalPoints |->
            [i \in 1 .. n |->
                [x |-> xForIndex(plotWidth, n, Num(i - 1)),
                 y |-> yForValue(plotHeight, totalHeight(s[i], maxPayment, plotHeight))]],
         gridlines |-> GridlinesFrom(0, n, verticalStep(n))]

\* resize(): cache the canvas's current size and redraw
resize ==
    /\ state' = [width |-> clientSize.w, height |-> clientSize.h]
    /\ chart' = drawChart(schedule, state')

\* DOMContentLoaded: buildChart
BuildChart ==
    /\ phase = "loading"
    /\ phase' = "ready"
    /\ IF /\ "schedule-data" \in anchors
          /\ "payment-chart" \in anchors
          /\ Len(schedule) > 0
       THEN /\ mounted' = TRUE
            /\ resize
       ELSE UNCHANGED <<mounted, state, chart>>
    /\ UNCHANGED <<anchors, schedule, clientSize, tooltip, hover, threw>>
    /\ UNCHANGED <<formatVars, toggleVars>>

\* window "resize" event
WindowResize ==
    /\ mounted
    /\ resize
    /\ UNCHANGED <<anchors, schedule, phase, mounted, clientSize, tooltip, hover, threw>>
    /\ UNCHANGED <<formatVars, toggleVars>>

\* the layout changes the canvas's CSS size; no script runs
CanvasSizeChange ==
    \E size \in CanvasSizes :
        /\ size # clientSize
        /\ clientSize' = size
        /\ UNCHANGED <<anchors, schedule, phase, mounted, state, chart, tooltip,
                       hover, threw>>
        /\ UNCHANGED <<formatVars, toggleVars>>

plotWidthOf(st) == Num(st.width - PadLeft - PadRight)

\* hoverIndex without the clamp of the pointer to the plot area
hoverIndexUnclamped(x, plotWidth, n) ==
    JsRound(JsMul(JsDiv(Num(x - PadLeft), plotWidth), Num(n - 1)))

hoverIndex(x, plotWidth, n) ==
    LET clampedX == JsMin(JsMax(Num(x - PadLeft), Num(0)), plotWidth)
    IN  JsRound(JsMul(JsDiv(clampedX, plotWidth), Num(n - 1)))

\* tooltipLeft without the lower clamp to the margin
tooltipLeftNoMargin(pointX, tooltipWidth, rectWidth) ==
    LET maxLeft == Num(rectWidth - tooltipWidth - Margin)
    IN  JsMin(JsSub(pointX, JsDiv(Num(tooltipWidth), Num(2))), maxLeft)

tooltipLeft(pointX, tooltipWidth, rectWidth) ==
    LET maxLeft == Num(rectWidth - tooltipWidth - Margin)
    IN  JsMin(JsMax(JsSub(pointX, JsDiv(Num(tooltipWidth), Num(2))), Num(Margin)), maxLeft)

tooltipTop(pointY, tooltipHeight, rectHeight) ==
    LET maxTop == Num(rectHeight - tooltipHeight - Margin)
    IN  JsMin(JsMax(JsSub(pointY, Num(tooltipHeight)), Num(Margin)), maxTop)

\* canvas "mousemove" event: handleHover.  x is event.clientX - rect.left.
\* The canvas has no border or transform, so chartRect.width and height are
\* its current client size.
handleHover(x, offsetWidth, offsetHeight) ==
    LET n == Len(schedule)
        plotWidth == plotWidthOf(state)
        index == hoverIndex(x, plotWidth, n)
        found == HasRow(n, index)
        tooltipWidth == IF offsetWidth = 0 THEN DefaultTooltipWidth ELSE offsetWidth
        tooltipHeight == IF offsetHeight = 0 THEN DefaultTooltipHeight ELSE offsetHeight
        pointX == xForIndex(plotWidth, n, index)
        pointY == Num(PadTop + 10)
        seen == [seen |-> TRUE, x |-> x, plotWidth |-> plotWidth, index |-> index,
                 found |-> found, tooltipWidth |-> tooltipWidth,
                 tooltipHeight |-> tooltipHeight, rect |-> clientSize]
    IN  IF "chart-tooltip" \notin anchors
        THEN UNCHANGED <<tooltip, hover, threw>>
        ELSE /\ hover' = seen
             /\ IF ~found
                THEN /\ tooltip' = [tooltip EXCEPT !.opacity = "0"]
                     /\ UNCHANGED threw
                ELSE IF "tooltip-title" \notin anchors
                THEN /\ threw' = TRUE
                     /\ UNCHANGED tooltip
                ELSE IF "tooltip-principal" \notin anchors
                THEN /\ threw' = TRUE
                     /\ tooltip' = [tooltip EXCEPT !.title = index.n]
                ELSE IF "tooltip-interest" \notin anchors
                THEN /\ threw' = TRUE
                     /\ tooltip' = [tooltip EXCEPT !.title = index.n,
                                                   !.principal = index.n]
                ELSE /\ tooltip' =
                            [opacity |-> "1",
                             left |-> tooltipLeft(pointX, tooltipWidth, clientSize.w),
                             top |-> tooltipTop(pointY, tooltipHeight, clientSize.h),
                             title |-> index.n, principal |-> index.n,
                             interest |-> index.n]
                     /\ UNCHANGED threw

MouseMove ==
    \E x \in PointerXs, size \in TooltipSizes :
        /\ mounted
        /\ handleHover(x, size.w, size.h)
        /\ UNCHANGED <<anchors, schedule, phase, mounted, clientSize, state, chart>>
        /\ UNCHANGED <<formatVars, toggleVars>>

\* canvas "mouseleave" event
MouseLeave ==
    /\ mounted
    /\ IF "chart-tooltip" \in anchors
       THEN tooltip' = [tooltip EXCEPT !.opacity = "0"]
       ELSE UNCHANGED tooltip
    /\ UNCHANGED <<anchors, schedule, phase, mounted, clientSize, state, chart,
                   hover, threw>>
    /\ UNCHANGED <<formatVars, toggleVars>>

------------------------------------------------------------------------------
\* Formatted input fields.  A text is a sequence of one-character strings.

GROUP_SEPARATOR == " "

Whitespace == {" "}
Digits == {"0", "1", "2", "3", "4", "5", "6", "7", "8", "9"}
\* \w of the regular expression, over the characters the model types
IsWord(c) == c \in Digits

\* value.replace(/\s+/g, "")
StripSpaces(value) == SelectSeq(value, LAMBDA c : c \notin Whitespace)
\* .replace(/,/g, ".")
CommasToPeriods(value) == [i \in 1 .. Len(value) |-> IF value[i] = "," THEN "." ELSE value[i]]

\* index of the first "." of text, or Len(text) + 1
RECURSIVE FirstPeriod(_, _)
FirstPeriod(text, i) ==
    IF i > Len(text) \/ text[i] = "." THEN i ELSE FirstPeriod(text, i + 1)

\* normalized.split("."): the pieces between the periods
RECURSIVE Split(_)
Split(text) ==
    LET p == FirstPeriod(text, 1)
    IN  IF p > Len(text) THEN <<text>>
        ELSE <<SubSeq(text, 1, p - 1)>> \o Split(SubSeq(text, p + 1, Len(text)))

\* number of digits in a row from position i
RECURSIVE DigitRun(_, _)
DigitRun(text, i) ==
    IF i > Len(text) \/ text[i] \notin Digits THEN 0 ELSE 1 + DigitRun(text, i + 1)

\* /\B(?=(\d{3})+(?!\d))/ matches between text[i] and text[i+1]: not a word
\* boundary, and what follows is a positive multiple of three digits and then
\* no digit.  It cannot match before the first or after the last character.
GroupBreak(text, i) ==
    /\ i >= 1
    /\ i < Len(text)
    /\ IsWord(text[i]) = IsWord(text[i + 1])
    /\ DigitRun(text, i + 1) > 0
    /\ DigitRun(text, i + 1) % 3 = 0

\* integer.replace(/\B(?=(\d{3})+(?!\d))/g, GROUP_SEPARATOR)
RECURSIVE GroupFrom(_, _)
GroupFrom(text, i) ==
    IF i > Len(text) THEN <<>>
    ELSE (IF GroupBreak(text, i) THEN <<text[i], GROUP_SEPARATOR>> ELSE <<text[i]>>)
         \o GroupFrom(text, i + 1)

formatNormalized(normalized) ==
    IF normalized = <<>> THEN <<>>
    ELSE LET parts == Split(normalized)
             grouped == GroupFrom(parts[1], 1)
         IN  IF Len(parts) >= 2 THEN grouped \o <<".">> \o parts[2] ELSE grouped

\* formatWithSpaces without the normalisation of commas
formatKeepingCommas(value) == formatNormalized(StripSpaces(value))

formatWithSpaces(value) == formatNormalized(CommasToPeriods(StripSpaces(value)))

TypedChars == {"1", " ", ",", "."}
Chars(str) ==
    CASE str = "1234567" -> <<"1", "2", "3", "4", "5", "6", "7">>
      [] str = "1234567.89" -> <<"1", "2", "3", "4", "5", "6", "7", ".", "8", "9">>
      [] str = "1,5" -> <<"1", ",", "5">>
      [] str = "1 234 567" -> <<"1", " ", "2", "3", "4", " ", "5", "6", "7">>
      [] str = "1 234 567.89" ->
            <<"1", " ", "2", "3", "4", " ", "5", "6", "7", ".", "8", "9">>
      [] str = "1.5" -> <<"1", ".", "5">>
      [] str = "" -> <<>>
PastedTexts == {Chars("1234567"), Chars("1234567.89"), Chars("1,5")}
Texts == SeqsUpTo(TypedChars, MaxStrLen) \cup PastedTexts

\* the "input" listener bindFormatting adds to every input[data-format]
InputEvent ==
    /\ fieldPhase = "edited"
    /\ fieldPhase' = "formatted"
    /\ fieldRaw' = fieldValue
    /\ fieldValue' = IF fieldValue = <<>> THEN fieldValue ELSE formatWithSpaces(fieldValue)
    /\ UNCHANGED <<chartVars, toggleVars>>

\* the user types one more character at the end of the field
Keystroke ==
    \E c \in TypedChars :
        /\ fieldPhase = "formatted"
        /\ Len(fieldValue) < MaxStrLen
        /\ fieldValue' = Append(fieldValue, c)
        /\ fieldPhase' = "edited"
        /\ UNCHANGED fieldRaw
        /\ UNCHANGED <<chartVars, toggleVars>>

------------------------------------------------------------------------------
\* The installment toggle.

RateTexts == {<<>>, <<"5">>, <<"7">>, <<"1", "2">>, <<"7", ".", "5">>, <<"0">>}

\* ToggleClick that turns the mode on without clearing the input
ToggleClickKeepingValue ==
    LET isActive == ~toggleActive
    IN  /\ clicks < MaxClicks
        /\ clicks' = clicks + 1
        /\ toggleActive' = isActive
        /\ fieldHidden' = isActive
        /\ IF isActive
           THEN /\ rate' = [rate EXCEPT !.required = FALSE, !.disabled = TRUE]
                /\ lastClick' = "on"
           ELSE /\ rate' = [rate EXCEPT !.disabled = FALSE, !.required = TRUE]
                /\ lastClick' = "off"
        /\ UNCHANGED <<chartVars, formatVars>>

\* "click" on #installment-toggle
ToggleClick ==
    LET isActive == ~toggleActive
    IN  /\ clicks < MaxClicks
        /\ clicks' = clicks + 1
        /\ toggleActive' = isActive
        /\ fieldHidden' = isActive
        /\ IF isActive
           THEN /\ rate' = [value |-> <<>>, required |-> FALSE, disabled |-> TRUE]
                /\ lastClick' = "on"
           ELSE /\ rate' = [rate EXCEPT !.disabled = FALSE, !.required = TRUE]
                /\ lastClick' = "off"
        /\ UNCHANGED <<chartVars, formatVars>>

\* the user edits the annual_rate input, which a disabled input does not allow
TypeRate ==
    \E text \in RateTexts :
        /\ ~rate.disabled
        /\ text # rate.value
        /\ rate' = [rate EXCEPT !.value = text]
        /\ lastClick' = "type"
        /\ UNCHANGED <<toggleActive, fieldHidden, clicks>>
        /\ UNCHANGED <<chartVars, formatVars>>

------------------------------------------------------------------------------
\* Initial states and specifications.

FormatIdle == fieldRaw = <<>> /\ fieldValue = <<>> /\ fieldPhase = "formatted"
ToggleIdle ==
    /\ toggleActive = FALSE
    /\ fieldHidden = FALSE
    /\ rate = [value |-> <<>>, disabled |-> FALSE, required |-> TRUE]
    /\ clicks = 0
    /\ lastClick = "none"

\* the page before DOMContentLoaded, with the given anchors and schedules
ChartLoading(anchorSets, schedules) ==
    /\ anchors \in anchorSets
    /\ schedule \in schedules
    /\ phase = "loading"
    /\ mounted = FALSE
    /\ clientSize \in CanvasSizes
    /\ state = [width |-> 0, height |-> 0]
    /\ chart = NoChart
    /\ tooltip = NoTooltip
    /\ hover = NoHover
    /\ threw = FALSE

\* the chart page with every anchor present, under every event
NextChart ==
    \/ BuildChart
    \/ WindowResize
    \/ CanvasSizeChange
    \/ MouseMove
    \/ MouseLeave
InitChart ==
    /\ ChartLoading({AnchorIds}, HoverSchedules)
    /\ FormatIdle
    /\ ToggleIdle
SpecChart == InitChart /\ [][NextChart]_vars

\* the chart's drawing: every schedule, mounted and redrawn at every size
NextDraw ==
    \/ BuildChart
    \/ WindowResize
    \/ CanvasSizeChange
InitDraw ==
    /\ ChartLoading({AnchorIds}, ShortSchedules \cup LongSchedules)
    /\ FormatIdle
    /\ ToggleIdle
SpecDraw == InitDraw /\ [][NextDraw]_vars

\* the chart page with any subset of the anchors, and possibly no rows:
\* the handlers buildChart registers
NextMount ==
    \/ BuildChart
    \/ WindowResize
    \/ MouseMove
    \/ MouseLeave
InitMount ==
    /\ ChartLoading(SUBSET AnchorIds, {<<>>, Uniform(1), Uniform(2)})
    /\ FormatIdle
    /\ ToggleIdle
SpecMount == InitMount /\ [][NextMount]_vars

\* a formatted field holding any text the user put there, the event pending
NextFormat ==
    \/ InputEvent
    \/ Keystroke
InitFormat ==
    /\ fieldValue \in Texts
    /\ fieldRaw = fieldValue
    /\ fieldPhase = "edited"
    /\ ChartLoading({AnchorIds}, {Uniform(1)})
    /\ clientSize = [w |-> 0, h |-> 0]
    /\ ToggleIdle
SpecFormat == InitFormat /\ [][NextFormat]_vars

\* the form as the page delivers it.  The markup is not part of the scripts:
\* the toggle may be delivered in either mode with any classes and attributes,
\* except that an input delivered in installment mode is disabled and empty.
NextToggle ==
    \/ ToggleClick
    \/ TypeRate
InitToggle ==
    /\ toggleActive \in BOOLEAN
    /\ fieldHidden \in BOOLEAN
    /\ rate \in [value : RateTexts, disabled : BOOLEAN, required : BOOLEAN]
    /\ toggleActive => (rate.disabled /\ rate.value = <<>>)
    /\ clicks = 0
    /\ lastClick = "none"
    /\ ChartLoading({AnchorIds}, {Uniform(1)})
    /\ clientSize = [w |-> 0, h |-> 0]
    /\ FormatIdle
SpecToggle == InitToggle /\ [][NextToggle]_vars

------------------------------------------------------------------------------
\* Properties of hover resolution (SpecChart).

RowCount == Len(schedule)
AtOrBeyondRightEdge == JsLe(hover.plotWidth, Num(hover.x - PadLeft))
AtOrBeforeLeftEdge == hover.x - PadLeft <= 0

\* C1: with a positive plot width, a pointer at or beyond the right plot edge
\* resolves to the last row, and one at or before the left edge to row 0.
C1_HoverEdges ==
    (hover.seen /\ JsLt(Num(0), hover.plotWidth)) =>
        /\ AtOrBeyondRightEdge => hover.index = Num(RowCount - 1)
        /\ AtOrBeforeLeftEdge => hover.index = Num(0)

C1_Witness ==
    /\ hover.seen
    /\ JsLt(Num(0), hover.plotWidth)
    /\ AtOrBeyondRightEdge
    /\ RowCount >= 2
    /\ hover.index = Num(RowCount - 1)
    /\ tooltip.opacity = "1"

\* C2: whatever width resize stored, every mousemove over a non-empty schedule
\* resolves to an integer index in 0..n-1, so a row is found and the tooltip is
\* shown; with one row the index is 0.
C2_HoverAlwaysFindsRow ==
    hover.seen =>
        /\ IsInteger(hover.index)
        /\ hover.index.n \in 0 .. (RowCount - 1)
        /\ hover.found
        /\ RowCount = 1 => hover.index = Num(0)

\* The tooltip box of the last mousemove that found a row.
TooltipPlaced == hover.seen /\ hover.found
RightMarginKept ==
    JsLe(JsAdd(tooltip.left, Num(hover.tooltipWidth)), Num(hover.rect.w - Margin))
BottomMarginKept ==
    JsLe(JsAdd(tooltip.top, Num(hover.tooltipHeight)), Num(hover.rect.h - Margin))
LeftMarginKept == JsLe(Num(Margin), tooltip.left)
TopMarginKept == JsLe(Num(Margin), tooltip.top)
FitsAcross == hover.rect.w >= hover.tooltipWidth + 2 * Margin
FitsDown == hover.rect.h >= hover.tooltipHeight + 2 * Margin

\* C4 as stated: for every container and tooltip size the tooltip keeps a
\* margin of 8px on all four sides.
C4_AllMarginsKept ==
    TooltipPlaced =>
        /\ LeftMarginKept
        /\ RightMarginKept
        /\ TopMarginKept
        /\ BottomMarginKept

\* C4 amended: the right and bottom margins are always kept; the left margin is
\* kept when the container is at least tooltipWidth + 16 wide, the top margin
\* when it is at least tooltipHeight + 16 high.
C4_MarginsKeptWhenFits ==
    TooltipPlaced =>
        /\ RightMarginKept
        /\ BottomMarginKept
        /\ FitsAcross => LeftMarginKept
        /\ FitsDown => TopMarginKept

C4_Witness ==
    /\ TooltipPlaced
    /\ FitsAcross
    /\ FitsDown
    /\ tooltip.opacity = "1"
    /\ JsLt(Num(Margin), tooltip.left)
    /\ JsLt(JsAdd(tooltip.left, Num(hover.tooltipWidth)), Num(hover.rect.w - Margin))

\* C9: the plot width handleHover used is the one derived from the canvas's
\* client width at the time of the mousemove.
C9_HoverUsesCurrentWidth ==
    hover.seen => hover.plotWidth = Num(hover.rect.w - PadLeft - PadRight)

------------------------------------------------------------------------------
\* Properties of the mount (SpecMount).

\* C5: whichever anchors are absent, buildChart and the handlers it registered
\* complete without raising an error.
C5_NoHandlerThrows == ~threw

------------------------------------------------------------------------------
\* Properties of the drawing (SpecDraw).

PointIndices == 1 .. Len(chart.interestPoints)
FinitePoint(point) == IsFinite(point.x) /\ IsFinite(point.y)

\* C6: every coordinate drawChart computes for interestPoints and totalPoints
\* is a finite number.
C6_CoordinatesFinite ==
    mounted =>
        \A i \in PointIndices :
            /\ FinitePoint(chart.interestPoints[i])
            /\ FinitePoint(chart.totalPoints[i])

\* C7: at every index the total point is at or above the interest point
\* (canvas y grows downwards).
C7_InterestBelowTotal ==
    mounted =>
        \A i \in PointIndices :
            JsLe(chart.totalPoints[i].y, chart.interestPoints[i].y)

GridStep == IF RowCount \div GridTarget >= 1 THEN RowCount \div GridTarget ELSE 1
GridlinesAtMultiplesOfStep ==
    /\ \A k \in 1 .. Len(chart.gridlines) : chart.gridlines[k] = (k - 1) * GridStep
    /\ {chart.gridlines[k] : k \in 1 .. Len(chart.gridlines)}
         = {i \in 0 .. (RowCount - 1) : i % GridStep = 0}

\* C10 as stated: gridlines at 0, step, 2*step, ... below n, and about 24 of
\* them at most (read generously: no more than half as many again).
C10_AtMostAbout24Gridlines ==
    mounted =>
        /\ GridlinesAtMultiplesOfStep
        /\ 2 * Len(chart.gridlines) <= 3 * GridTarget

\* C10 amended: gridlines at 0, step, 2*step, ... below n, and at most 47 of
\* them (fewer than twice 24) whatever n is; at most 24 exactly when n <= 24
\* or n is a multiple of 24.
C10_FewerThan48Gridlines ==
    mounted =>
        /\ GridlinesAtMultiplesOfStep
        /\ Len(chart.gridlines) < 2 * GridTarget
        /\ Len(chart.gridlines) <= GridTarget
              <=> (RowCount <= GridTarget \/ RowCount % GridTarget = 0)

C10_Witness ==
    /\ mounted
    /\ GridStep > 1
    /\ Len(chart.gridlines) > GridTarget
    /\ Len(chart.gridlines) < RowCount

------------------------------------------------------------------------------
\* Properties of formatWithSpaces (SpecFormat).

Markers(text) == Cardinality({i \in 1 .. Len(text) : text[i] \in {",", "."}})
NoSpaces(text) == SelectSeq(text, LAMBDA c : c # " ")
MarkerAt(text) == CHOOSE i \in 1 .. Len(text) : text[i] \in {",", "."}

\* digits in threes from the right: a space before every digit that has a
\* multiple of three digits from itself to the end, except the first
GroupedInThrees(digits) ==
    LET n == Len(digits)
        spaces == Cardinality({i \in 2 .. n : (n - i + 1) % 3 = 0})
        \* position in digits of the j-th character of the result, 0 for a space
        StartLen == IF n % 3 = 0 THEN 3 ELSE n % 3
        Source(j) == IF j <= StartLen THEN j
                     ELSE IF (j - StartLen) % 4 = 1 THEN 0
                     ELSE j - 1 - ((j - StartLen - 1) \div 4)
    IN  [j \in 1 .. (n + spaces) |-> IF Source(j) = 0 THEN " " ELSE digits[Source(j)]]

\* what the claim says of a text with at most one decimal marker
Formatted(raw) ==
    LET text == NoSpaces(raw)
    IN  IF text = <<>> THEN <<>>
        ELSE IF Markers(text) = 0 THEN GroupedInThrees(text)
        ELSE GroupedInThrees(SubSeq(text, 1, MarkerAt(text) - 1))
             \o <<".">> \o SubSeq(text, MarkerAt(text) + 1, Len(text))

------------------------------------------------------------------------------
\* Properties of the installment toggle (SpecToggle).

\* C3: a click that turns the mode on leaves the input empty, disabled and not
\* required; one that turns it off leaves it enabled, required and still
\* empty; after any click disabled = is-active = is-hidden = ~required.
C3_ToggleKeepsRateInputConsistent ==
    /\ lastClick = "on" =>
            rate = [value |-> <<>>, disabled |-> TRUE, required |-> FALSE]
    /\ lastClick = "off" =>
            rate = [value |-> <<>>, disabled |-> FALSE, required |-> TRUE]
    /\ clicks >= 1 =>
        /\ rate.disabled = toggleActive
        /\ rate.required = ~rate.disabled
        /\ fieldHidden = toggleActive

C3_Witness ==
    /\ lastClick = "off"
    /\ clicks >= 3
    /\ ~toggleActive
    /\ rate.value = <<>>

====
